---------------------------- MODULE Spec2Model ----------------------------
(***************************************************************************)
(* State-machine model of the LILYGO T-Display-S3 three-colour LED sketch  *)
(* (src/src/main.cpp with src/include/helper_functions.h).                 *)
(*                                                                         *)
(* The program is a single cooperative polling loop.  One loop iteration   *)
(* is modelled as four program steps, in the order of the statements of    *)
(* loop():  keyButton.tick()  ->  button sampling  ->  mode switch  ->     *)
(* display update.  The environment supplies the gesture raised by         *)
(* keyButton.tick(), the level read from the button pin and the progress   *)
(* of the millisecond clock.                                               *)
(***************************************************************************)
EXTENDS Integers, Sequences, FiniteSets, TLC

(***************************************************************************)
(* Bounds of the model.                                                    *)
(***************************************************************************)
\* the millisecond counter is WordBits wide (it wraps at 2^WordBits)
WordBits == 11
\* the clock is not advanced beyond MaxTime milliseconds of true time
MaxTime == 7000
\* the history counters advances / ledWrites saturate at MaxCount
MaxCount == 14

(***************************************************************************)
(* Program constants.                                                      *)
(***************************************************************************)
\* enum class LEDColour
RED == 0
GREEN == 1
BLUE == 2
YELLOW == 3
MAGENTA == 4
CYAN == 5
WHITE == 6
\* the "% 7" of changeColour
NumColours == 7
\* the ">= 1000" of updateAutoColour
ColourInterval == 1000

\* enum class State
Colour_CHANGE_AUTO == "AUTO"
Colour_CHANGE_MANUAL == "MANUAL"

LEDColour == RED .. WHITE
State == {Colour_CHANGE_AUTO, Colour_CHANGE_MANUAL}

\* the three status fields of the screen
Fields == {"mode", "colour", "button"}

\* clock progress between two program steps, in milliseconds
Deltas == {ColourInterval - 1, ColourInterval}

Modulus == 2 ^ WordBits

VARIABLES
    pc,                    \* position of the program: "setup", "tick", "sample", "mode", "render"
    currentColour,         \* LEDColour currentColour
    currentState,          \* State currentState
    buttonPressed,         \* bool buttonPressed
    redrawDisplay,         \* bool redrawDisplay (the dirty flag)
    lastColourChangeTime,  \* static unsigned long of updateAutoColour
    now,                   \* true time in ms since boot; millis() is now mod 2^WordBits
    led,                   \* levels of RED_PIN, GREEN_PIN, BLUE_PIN
    shown,                 \* text on the screen in each status field
    painted,               \* history: status fields painted by the last display step of loop()
    lastOp,                \* history: name of the last program step taken
    advances,              \* history: number of changeColour() calls (saturating)
    ledWrites,             \* history: number of setLEDColour() calls (saturating)
    idle,                  \* history: nothing has happened yet in this loop iteration
    stale,                 \* history: fields whose text was out of date at the last display step
    everToggled,           \* history: onLongPressStart has run at least once
    backlight,             \* last level written to PIN_LCD_BL ("unwritten" when none)
    lastChangeTrue,        \* history: true time at which lastColourChangeTime was last stored
    iterAdvances,          \* history: changeColour() calls so far in this loop iteration
    pressTiming            \* history: "none" unless this iteration handled a long press; then "due" or
                           \* "early" (interval over or not at the press), "moved" once the clock moved on

vars == <<pc, currentColour, currentState, buttonPressed, redrawDisplay,
          lastColourChangeTime, now, led, shown, painted, lastOp, advances,
          ledWrites, idle, stale, everToggled, backlight, lastChangeTrue,
          iterAdvances, pressTiming>>

(***************************************************************************)
(* Pure helpers.                                                           *)
(***************************************************************************)
Bump(n) == IF n < MaxCount THEN n + 1 ELSE n

\* millis(): the wrapped millisecond counter
millis == now % Modulus

\* a subtraction that yields 0 instead of wrapping when a < b
USub_Saturating(a, b) == IF a >= b THEN a - b ELSE 0

\* unsigned subtraction  a - b  on WordBits-wide values
USub(a, b) == (a - b + Modulus) % Modulus

\* setLEDColour with the CYAN case writing the GREEN pattern
Pattern_CyanAsGreen(Colour) ==
    CASE Colour = RED     -> <<TRUE,  FALSE, FALSE>>
      [] Colour = GREEN   -> <<FALSE, TRUE,  FALSE>>
      [] Colour = BLUE    -> <<FALSE, FALSE, TRUE>>
      [] Colour = YELLOW  -> <<TRUE,  TRUE,  FALSE>>
      [] Colour = MAGENTA -> <<TRUE,  FALSE, TRUE>>
      [] Colour = CYAN    -> <<FALSE, TRUE,  FALSE>>
      [] Colour = WHITE   -> <<TRUE,  TRUE,  TRUE>>
      [] OTHER            -> <<TRUE,  FALSE, FALSE>>

\* the channel pattern written by setLEDColour, <<red, green, blue>>
Pattern(Colour) ==
    CASE Colour = RED     -> <<TRUE,  FALSE, FALSE>>
      [] Colour = GREEN   -> <<FALSE, TRUE,  FALSE>>
      [] Colour = BLUE    -> <<FALSE, FALSE, TRUE>>
      [] Colour = YELLOW  -> <<TRUE,  TRUE,  FALSE>>
      [] Colour = MAGENTA -> <<TRUE,  FALSE, TRUE>>
      [] Colour = CYAN    -> <<FALSE, TRUE,  TRUE>>
      [] Colour = WHITE   -> <<TRUE,  TRUE,  TRUE>>
      [] OTHER            -> <<TRUE,  FALSE, FALSE>>

\* changeColour without the wrap-around
NextColour_NoWrap(c) == c + 1

\* changeColour with the modulus one too small: WHITE is never reached
NextColour_Mod6(c) == (c + 1) % (NumColours - 1)

\* static_cast<LEDColour>((static_cast<int>(currentColour) + 1) % 7)
NextColour(c) == (c + 1) % NumColours

\* the timer test with > in place of >=
TimerDue_Strict(currentTime, last) == USub(currentTime, last) > ColourInterval

\* the timer test as a comparison of the clock with timestamp + interval
TimerDue_NoWrap(currentTime, last) == currentTime >= last + ColourInterval

\* currentTime - lastColourChangeTime >= 1000
TimerDue(currentTime, last) == USub(currentTime, last) >= ColourInterval

\* a toggle that only ever enters MANUAL
ToggleMode_OneWay(s) == Colour_CHANGE_MANUAL

\* (currentState == AUTO) ? MANUAL : AUTO
ToggleMode(s) ==
    IF s = Colour_CHANGE_AUTO THEN Colour_CHANGE_MANUAL ELSE Colour_CHANGE_AUTO

colourNames == <<"RED", "GREEN", "BLUE", "YELLOW", "MAGENTA", "CYAN", "WHITE">>

ModeText(s) == IF s = Colour_CHANGE_AUTO THEN "AUTO MODE" ELSE "MANUAL MODE"
ColourText(c) == colourNames[c + 1]
ButtonText(b) == IF b THEN "PRESSED" ELSE "NOT PRESSED"

\* the texts the status fields would show for the current state
CurrentTexts ==
    [mode   |-> ModeText(currentState),
     colour |-> ColourText(currentColour),
     button |-> ButtonText(buttonPressed)]

\* drawStaticElements leaves the three status fields empty
BlankTexts == [mode |-> "", colour |-> "", button |-> ""]

(***************************************************************************)
(* The helper functions of helper_functions.h, as action fragments.        *)
(***************************************************************************)
setLEDColour(Colour) ==
    /\ led' = Pattern(Colour)
    /\ ledWrites' = Bump(ledWrites)
    /\ redrawDisplay' = TRUE

\* changeColour without the call of setLEDColour
changeColour_NoWrite ==
    /\ currentColour' = NextColour(currentColour)
    /\ advances' = Bump(advances)
    /\ iterAdvances' = (IF pc = "tick" THEN 0 ELSE iterAdvances) + 1
    /\ redrawDisplay' = TRUE
    /\ UNCHANGED <<led, ledWrites>>

changeColour ==
    /\ currentColour' = NextColour(currentColour)
    /\ advances' = Bump(advances)
    /\ iterAdvances' = (IF pc = "tick" THEN 0 ELSE iterAdvances) + 1
    /\ setLEDColour(NextColour(currentColour))

\* updateAutoColour without storing the time of the advance
updateAutoColour_NoStamp ==
    IF TimerDue(millis, lastColourChangeTime)
    THEN /\ UNCHANGED <<lastColourChangeTime, lastChangeTrue>>
         /\ changeColour
         /\ redrawDisplay' = TRUE
         /\ idle' = FALSE
         /\ lastOp' = "autoAdvance"
    ELSE /\ UNCHANGED <<lastColourChangeTime, currentColour, advances, led,
                        ledWrites, redrawDisplay, idle, lastChangeTrue,
                        iterAdvances>>
         /\ lastOp' = "autoWait"

updateAutoColour ==
    IF TimerDue(millis, lastColourChangeTime)
    THEN /\ lastColourChangeTime' = millis
         /\ lastChangeTrue' = now
         /\ changeColour
         /\ redrawDisplay' = TRUE
         /\ idle' = FALSE
         /\ lastOp' = "autoAdvance"
    ELSE /\ UNCHANGED <<lastColourChangeTime, currentColour, advances, led,
                        ledWrites, redrawDisplay, idle, lastChangeTrue,
                        iterAdvances>>
         /\ lastOp' = "autoWait"

\* a display update that paints only the fields whose text is out of date
updateDynamicElements_OnlyChanged ==
    /\ shown' = CurrentTexts
    /\ painted' = {f \in Fields : shown[f] # CurrentTexts[f]}

updateDynamicElements ==
    /\ shown' = CurrentTexts
    /\ painted' = Fields

\* onShortPress without the test of the mode
onShortPress_NoModeCheck ==
    /\ changeColour
    /\ redrawDisplay' = TRUE

onShortPress ==
    /\ IF currentState = Colour_CHANGE_MANUAL
       THEN changeColour
       ELSE /\ UNCHANGED <<currentColour, advances, led, ledWrites>>
            /\ iterAdvances' = 0
    /\ redrawDisplay' = TRUE

onLongPressStart ==
    /\ currentState' = ToggleMode(currentState)
    /\ redrawDisplay' = TRUE

\* whether the true time since the last timer-driven advance (or since start)
\* had reached the interval when a long press was handled
PressTimingAt(trueElapsed) ==
    IF trueElapsed >= ColourInterval THEN "due" ELSE "early"

(***************************************************************************)
(* Initial state: the global initialisers, before setup() runs.            *)
(***************************************************************************)
Init ==
    /\ pc = "setup"
    /\ currentColour = RED
    /\ currentState = Colour_CHANGE_AUTO
    /\ buttonPressed = FALSE
    /\ redrawDisplay = TRUE
    /\ lastColourChangeTime = 0
    /\ now = 0
    /\ led = <<FALSE, FALSE, FALSE>>
    /\ shown = BlankTexts
    /\ painted = {}
    /\ lastOp = "init"
    /\ advances = 0
    /\ ledWrites = 0
    /\ idle = TRUE
    /\ stale = {}
    /\ everToggled = FALSE
    /\ backlight = "unwritten"
    /\ lastChangeTrue = 0
    /\ iterAdvances = 0
    /\ pressTiming = "none"

(***************************************************************************)
(* setup()                                                                 *)
(***************************************************************************)
\* setup() without the initial setLEDColour(currentColour)
setup_NoLedInit ==
    /\ pc = "setup"
    /\ UNCHANGED pressTiming
    /\ shown' = BlankTexts
    /\ redrawDisplay' = TRUE
    /\ pc' = "tick"
    /\ painted' = {}
    /\ lastOp' = "setup"
    /\ UNCHANGED <<currentColour, currentState, buttonPressed, led, ledWrites,
                   lastColourChangeTime, now, advances, idle, stale, everToggled,
                   backlight, lastChangeTrue, iterAdvances>>

setup ==
    /\ pc = "setup"
    /\ UNCHANGED pressTiming
    /\ setLEDColour(currentColour)
    /\ shown' = BlankTexts
    /\ redrawDisplay' = TRUE
    /\ pc' = "tick"
    /\ painted' = {}
    /\ lastOp' = "setup"
    /\ UNCHANGED <<currentColour, currentState, buttonPressed,
                   lastColourChangeTime, now, advances, idle, stale, everToggled,
                   backlight, lastChangeTrue, iterAdvances>>

(***************************************************************************)
(* loop(), statement by statement.                                         *)
(***************************************************************************)
\* keyButton.tick() raising no gesture
KeyTickNone ==
    /\ pc = "tick"
    /\ pressTiming' = "none"
    /\ pc' = "sample"
    /\ idle' = TRUE
    /\ painted' = {}
    /\ lastOp' = "tickNone"
    /\ stale' = {}
    /\ iterAdvances' = 0
    /\ UNCHANGED <<currentColour, currentState, buttonPressed, redrawDisplay,
                   lastColourChangeTime, now, led, shown, advances, ledWrites,
                   everToggled, backlight, lastChangeTrue>>

\* keyButton.tick() raising a click: the attached onShortPress runs
KeyTickClick ==
    /\ pc = "tick"
    /\ pressTiming' = "none"
    /\ onShortPress
    /\ pc' = "sample"
    /\ idle' = FALSE
    /\ painted' = {}
    /\ lastOp' = "click"
    /\ stale' = {}
    /\ UNCHANGED <<currentState, buttonPressed, lastColourChangeTime, now, shown,
                   everToggled, backlight, lastChangeTrue>>

\* a long-press start that also restarts the auto-advance timer
KeyTickLongPressStart_ResetsTimer ==
    /\ pc = "tick"
    /\ pressTiming' = PressTimingAt(now - lastChangeTrue)
    /\ onLongPressStart
    /\ lastColourChangeTime' = millis
    /\ lastChangeTrue' = now
    /\ pc' = "sample"
    /\ idle' = FALSE
    /\ painted' = {}
    /\ lastOp' = "longPress"
    /\ stale' = {}
    /\ everToggled' = TRUE
    /\ iterAdvances' = 0
    /\ UNCHANGED <<currentColour, buttonPressed, now, led, shown, advances,
                   ledWrites, backlight>>

\* keyButton.tick() raising a long-press start: the attached onLongPressStart runs
KeyTickLongPressStart ==
    /\ pc = "tick"
    /\ pressTiming' = PressTimingAt(now - lastChangeTrue)
    /\ onLongPressStart
    /\ pc' = "sample"
    /\ idle' = FALSE
    /\ painted' = {}
    /\ lastOp' = "longPress"
    /\ stale' = {}
    /\ everToggled' = TRUE
    /\ iterAdvances' = 0
    /\ UNCHANGED <<currentColour, buttonPressed, lastColourChangeTime, now, led,
                   shown, advances, ledWrites, backlight, lastChangeTrue>>

\* the button sampling without raising the dirty flag
SampleButton_NoDirty ==
    /\ pc = "sample"
    /\ UNCHANGED pressTiming
    /\ \E newButtonState \in BOOLEAN :
          IF newButtonState # buttonPressed
          THEN /\ buttonPressed' = newButtonState
               /\ idle' = FALSE
          ELSE UNCHANGED <<buttonPressed, idle>>
    /\ pc' = "mode"
    /\ painted' = {}
    /\ lastOp' = "sample"
    /\ stale' = {}
    /\ UNCHANGED <<currentColour, currentState, lastColourChangeTime, now, led,
                   shown, advances, ledWrites, everToggled, redrawDisplay,
                   backlight, lastChangeTrue, iterAdvances>>

\* the button sampling followed directly by the display update
SampleButton_SkipsModeSwitch ==
    /\ pc = "sample"
    /\ UNCHANGED pressTiming
    /\ \E newButtonState \in BOOLEAN :
          IF newButtonState # buttonPressed
          THEN /\ buttonPressed' = newButtonState
               /\ redrawDisplay' = TRUE
               /\ idle' = FALSE
          ELSE UNCHANGED <<buttonPressed, redrawDisplay, idle>>
    /\ pc' = "render"
    /\ painted' = {}
    /\ lastOp' = "sample"
    /\ stale' = {}
    /\ UNCHANGED <<currentColour, currentState, lastColourChangeTime, now, led,
                   shown, advances, ledWrites, everToggled, backlight,
                   lastChangeTrue, iterAdvances>>

\* bool newButtonState = !digitalRead(BUTTON_PIN); if (newButtonState != buttonPressed) ...
SampleButton ==
    /\ pc = "sample"
    /\ UNCHANGED pressTiming
    /\ \E newButtonState \in BOOLEAN :
          IF newButtonState # buttonPressed
          THEN /\ buttonPressed' = newButtonState
               /\ redrawDisplay' = TRUE
               /\ idle' = FALSE
          ELSE UNCHANGED <<buttonPressed, redrawDisplay, idle>>
    /\ pc' = "mode"
    /\ painted' = {}
    /\ lastOp' = "sample"
    /\ stale' = {}
    /\ UNCHANGED <<currentColour, currentState, lastColourChangeTime, now, led,
                   shown, advances, ledWrites, everToggled, backlight,
                   lastChangeTrue, iterAdvances>>

\* the mode switch with the MANUAL case running on into the default case
ModeSwitch_FallsToDefault ==
    /\ pc = "mode"
    /\ UNCHANGED pressTiming
    /\ IF currentState = Colour_CHANGE_AUTO
       THEN /\ updateAutoColour
            /\ UNCHANGED currentState
       ELSE /\ currentState' = Colour_CHANGE_AUTO
            /\ lastOp' = "default"
            /\ UNCHANGED <<lastColourChangeTime, currentColour, advances, led,
                           ledWrites, redrawDisplay, idle, lastChangeTrue,
                           iterAdvances>>
    /\ pc' = "render"
    /\ painted' = {}
    /\ stale' = {}
    /\ UNCHANGED <<buttonPressed, now, shown, everToggled, backlight>>

\* the mode switch with the timer run in both modes (a missing break)
ModeSwitch_TimerInBothModes ==
    /\ pc = "mode"
    /\ UNCHANGED pressTiming
    /\ updateAutoColour
    /\ pc' = "render"
    /\ painted' = {}
    /\ stale' = {}
    /\ UNCHANGED <<currentState, buttonPressed, now, shown, everToggled,
                   backlight>>

\* switch (currentState) { case AUTO: updateAutoColour(); case MANUAL: ; default: ... }
ModeSwitch ==
    /\ pc = "mode"
    /\ UNCHANGED pressTiming
    /\ CASE currentState = Colour_CHANGE_AUTO ->
              /\ updateAutoColour
              /\ UNCHANGED currentState
         [] currentState = Colour_CHANGE_MANUAL ->
              /\ lastOp' = "manual"
              /\ UNCHANGED <<currentState, lastColourChangeTime, currentColour,
                             advances, led, ledWrites, redrawDisplay, idle,
                             lastChangeTrue, iterAdvances>>
         [] OTHER ->
              /\ currentState' = Colour_CHANGE_AUTO
              /\ lastOp' = "default"
              /\ UNCHANGED <<lastColourChangeTime, currentColour, advances, led,
                             ledWrites, redrawDisplay, idle, lastChangeTrue,
                             iterAdvances>>
    /\ pc' = "render"
    /\ painted' = {}
    /\ stale' = {}
    /\ UNCHANGED <<buttonPressed, now, shown, everToggled, backlight>>

\* the display step without the reset of the dirty flag
Render_KeepsFlag ==
    /\ pc = "render"
    /\ UNCHANGED pressTiming
    /\ IF redrawDisplay
       THEN /\ updateDynamicElements
            /\ lastOp' = "render"
       ELSE /\ painted' = {}
            /\ lastOp' = "noRender"
            /\ UNCHANGED shown
    /\ stale' = {f \in Fields : shown[f] # CurrentTexts[f]}
    /\ pc' = "tick"
    /\ UNCHANGED <<currentColour, currentState, buttonPressed, redrawDisplay,
                   lastColourChangeTime, now, led, advances, ledWrites, idle,
                   everToggled, backlight, lastChangeTrue, iterAdvances>>

\* if (redrawDisplay) { updateDynamicElements(tft); redrawDisplay = false; }
Render ==
    /\ pc = "render"
    /\ UNCHANGED pressTiming
    /\ IF redrawDisplay
       THEN /\ updateDynamicElements
            /\ redrawDisplay' = FALSE
            /\ lastOp' = "render"
       ELSE /\ painted' = {}
            /\ lastOp' = "noRender"
            /\ UNCHANGED <<shown, redrawDisplay>>
    /\ stale' = {f \in Fields : shown[f] # CurrentTexts[f]}
    /\ pc' = "tick"
    /\ UNCHANGED <<currentColour, currentState, buttonPressed,
                   lastColourChangeTime, now, led, advances, ledWrites, idle,
                   everToggled, backlight, lastChangeTrue, iterAdvances>>

(***************************************************************************)
(* The millisecond clock advances between program steps.                   *)
(***************************************************************************)
Elapse ==
    /\ pc # "setup"
    /\ pressTiming' = IF pressTiming = "none" THEN "none" ELSE "moved"
    /\ \E d \in Deltas :
          /\ now + d <= MaxTime
          /\ now' = now + d
    /\ UNCHANGED <<pc, currentColour, currentState, buttonPressed, redrawDisplay,
                   lastColourChangeTime, led, shown, painted, lastOp, advances,
                   ledWrites, idle, stale, everToggled, backlight, lastChangeTrue,
                   iterAdvances>>

Next ==
    \/ setup
    \/ KeyTickNone
    \/ KeyTickClick
    \/ KeyTickLongPressStart
    \/ SampleButton
    \/ ModeSwitch
    \/ Render
    \/ Elapse

Spec == Init /\ [][Next]_vars

(***************************************************************************)
(* The program running for ever.  The millisecond counter has no end: it   *)
(* moves on in steps of a quarter of its range and wraps to 0, as millis() *)
(* does.  One pass of loop() takes far less time than the counter's range, *)
(* so while the timer is being ticked (AUTO) the counter does not run a    *)
(* whole turn past the timestamp unobserved.  The program always takes its *)
(* next step (loop() is called again as soon as it returns) and the clock  *)
(* keeps moving.                                                           *)
(***************************************************************************)
LiveDelta == Modulus \div 4

LiveElapse ==
    /\ pc # "setup"
    /\ pressTiming' = IF pressTiming = "none" THEN "none" ELSE "moved"
    /\ currentState = Colour_CHANGE_AUTO =>
          USub(millis, lastColourChangeTime) + LiveDelta < Modulus
    /\ now' = (now + LiveDelta) % Modulus
    /\ UNCHANGED <<pc, currentColour, currentState, buttonPressed, redrawDisplay,
                   lastColourChangeTime, led, shown, painted, lastOp, advances,
                   ledWrites, idle, stale, everToggled, backlight, lastChangeTrue,
                   iterAdvances>>

Loop ==
    \/ KeyTickNone
    \/ KeyTickClick
    \/ KeyTickLongPressStart
    \/ SampleButton
    \/ ModeSwitch
    \/ Render

LiveNext ==
    \/ setup
    \/ Loop
    \/ LiveElapse

LiveSpec ==
    /\ Init
    /\ [][LiveNext]_vars
    /\ WF_vars(setup \/ Loop)
    /\ WF_vars(LiveElapse)

TypeOK ==
    /\ pc \in {"setup", "tick", "sample", "mode", "render"}
    /\ currentColour \in LEDColour
    /\ currentState \in State
    /\ buttonPressed \in BOOLEAN
    /\ redrawDisplay \in BOOLEAN
    /\ lastColourChangeTime \in 0 .. Modulus - 1
    /\ now \in 0 .. MaxTime
    /\ painted \subseteq Fields
    /\ advances \in 0 .. MaxCount
    /\ ledWrites \in 0 .. MaxCount
    /\ idle \in BOOLEAN
    /\ stale \subseteq Fields
    /\ everToggled \in BOOLEAN
    /\ backlight \in {"unwritten", "HIGH", "LOW"}
    /\ lastChangeTrue \in 0 .. MaxTime
    /\ iterAdvances \in 0 .. 2
    /\ pressTiming \in {"none", "early", "due", "moved"}

(***************************************************************************)
(* Steps of the program, recognised by the move of pc and the history.     *)
(***************************************************************************)
ClickStep     == pc = "tick" /\ pc' = "sample" /\ lastOp' = "click"
LongPressStep == pc = "tick" /\ pc' = "sample" /\ lastOp' = "longPress"
ModeStep      == pc = "mode" /\ pc' = "render"
RenderStep    == pc = "render" /\ pc' = "tick"
\* a step in which changeColour() is called
AdvanceStep ==
    \/ ClickStep /\ currentState = Colour_CHANGE_MANUAL
    \/ ModeStep /\ lastOp' = "autoAdvance"

\* the elapsed time the timer computes, in the state at hand
Elapsed == USub(millis, lastColourChangeTime)

(***************************************************************************)
(* C1.  One call of changeColour() moves currentColour from index i to     *)
(* index (i+1) mod 7, for every i in 0..6, and seven calls bring the       *)
(* colour back to where it started: while the call counter has not         *)
(* saturated the colour is (number of calls) mod 7, the start being RED.   *)
(***************************************************************************)
C1_CyclicAdvance ==
    [][ /\ AdvanceStep => /\ currentColour \in 0 .. 6
                          /\ currentColour' = (currentColour + 1) % 7
        /\ advances' < MaxCount => currentColour' = advances' % 7
      ]_vars

\* seven calls after the start the colour is RED again, having wrapped from WHITE
C1_Witness ==
    /\ advances = 7
    /\ currentColour = RED
    /\ lastOp \in {"click", "autoAdvance"}

(***************************************************************************)
(* C2.  A short click in MANUAL advances the colour exactly once; a short  *)
(* click in AUTO leaves currentColour, currentState and the three LED      *)
(* channels as they were.                                                  *)
(***************************************************************************)
C2_ShortClick ==
    [][ ClickStep =>
          IF currentState = Colour_CHANGE_MANUAL
          THEN /\ currentColour' = (currentColour + 1) % 7
               /\ advances < MaxCount => advances' = advances + 1
               /\ currentState' = currentState
          ELSE /\ currentColour' = currentColour
               /\ currentState' = currentState
               /\ led' = led
               /\ advances' = advances
               /\ ledWrites' = ledWrites
      ]_vars

\* a click has just been handled in AUTO, on a colour reached earlier by advancing
C2_Witness ==
    /\ lastOp = "click"
    /\ pc = "sample"
    /\ currentState = Colour_CHANGE_AUTO
    /\ currentColour = BLUE
    /\ led = <<FALSE, FALSE, TRUE>>

(***************************************************************************)
(* C3.  In AUTO the mode step of a loop iteration advances the colour      *)
(* exactly once and sets lastColourChangeTime to the current clock value   *)
(* when the (unsigned) difference millis() - lastColourChangeTime is at    *)
(* least 1000, and leaves colour and timestamp alone when it is below.     *)
(***************************************************************************)
C3_AutoTimer ==
    [][ (ModeStep /\ currentState = Colour_CHANGE_AUTO) =>
          IF Elapsed >= 1000
          THEN /\ currentColour' = (currentColour + 1) % 7
               /\ advances < MaxCount => advances' = advances + 1
               /\ lastColourChangeTime' = millis
          ELSE /\ currentColour' = currentColour
               /\ advances' = advances
               /\ lastColourChangeTime' = lastColourChangeTime
      ]_vars

\* the timer has fired with exactly 1000 ms elapsed since the previous advance
C3_Witness ==
    /\ lastOp = "autoAdvance"
    /\ pc = "render"
    /\ now = 2 * ColourInterval
    /\ lastColourChangeTime = now
    /\ advances = 2
    /\ ~everToggled

(***************************************************************************)
(* C4.  While the mode is MANUAL no step other than the handling of a      *)
(* short click changes currentColour, whatever time elapses.               *)
(***************************************************************************)
C4_ManualNoTimer ==
    [][ (currentState = Colour_CHANGE_MANUAL /\ ~ClickStep) =>
          /\ currentColour' = currentColour
          /\ advances' = advances
      ]_vars

\* AUTO,RED -> long press -> click -> click: BLUE, and still BLUE after the mode
\* step of an iteration in which 1000 ms or more have elapsed
C4_Witness ==
    /\ currentState = Colour_CHANGE_MANUAL
    /\ currentColour = BLUE
    /\ advances = 2
    /\ lastOp = "manual"
    /\ Elapsed >= ColourInterval

(***************************************************************************)
(* C5.  Handling a long-press start flips the mode (AUTO to MANUAL, MANUAL *)
(* to AUTO; hence twice restores it), in every colour and at every elapsed *)
(* time, and leaves currentColour alone.                                   *)
(***************************************************************************)
C5_LongPressToggles ==
    [][ LongPressStep =>
          /\ currentState = "AUTO" => currentState' = "MANUAL"
          /\ currentState = "MANUAL" => currentState' = "AUTO"
          /\ currentColour' = currentColour
          /\ advances' = advances
      ]_vars

\* a long press has switched back to AUTO, in a colour other than the initial
\* one and with the timer interval already elapsed
C5_Witness ==
    /\ lastOp = "longPress"
    /\ pc = "sample"
    /\ currentState = Colour_CHANGE_AUTO
    /\ currentColour = CYAN
    /\ Elapsed >= ColourInterval

(***************************************************************************)
(* C6.  After setup() the mode is AUTO, the colour RED, the LED shows the  *)
(* RED pattern and the dirty flag is set; and the display step of the      *)
(* first loop iteration (nothing rendered before) finds the flag set.      *)
(***************************************************************************)
C6_AfterSetup ==
    /\ lastOp = "setup" =>
          /\ pc = "tick"
          /\ currentState = "AUTO"
          /\ currentColour = 0
          /\ led = <<TRUE, FALSE, FALSE>>
          /\ redrawDisplay
    /\ (pc = "render" /\ shown = BlankTexts) => redrawDisplay
    /\ (pc = "tick" /\ lastOp # "setup") => shown # BlankTexts

\* setup() has run and loop() has not started
C6_Witness ==
    /\ lastOp = "setup"
    /\ pc = "tick"
    /\ redrawDisplay
    /\ ledWrites = 1

(***************************************************************************)
(* C7.  Every colour advance calls setLEDColour exactly once, for the new  *)
(* colour, and leaves the dirty flag set; the number of setLEDColour calls *)
(* after setup() equals the number of advances; and when no long press     *)
(* ever happened, seven advances end in AUTO, RED.                         *)
(***************************************************************************)
C7_AdvanceWrites ==
    [][ /\ AdvanceStep =>
              /\ led' = Pattern(currentColour')
              /\ redrawDisplay'
              /\ ledWrites < MaxCount => ledWrites' = ledWrites + 1
        /\ (~AdvanceStep /\ pc # "setup") => ledWrites' = ledWrites
        /\ (pc' # "setup" /\ ledWrites' < MaxCount) => ledWrites' = advances' + 1
        /\ (~everToggled' /\ advances' = 7) =>
              /\ currentState' = Colour_CHANGE_AUTO
              /\ currentColour' = RED
              /\ ledWrites' = 8
      ]_vars

\* seven timer-driven advances (no long press ever): AUTO, RED, 7 writes after setup's
C7_Witness ==
    /\ ~everToggled
    /\ advances = 7
    /\ ledWrites = 8
    /\ currentState = Colour_CHANGE_AUTO
    /\ currentColour = RED
    /\ lastOp = "autoAdvance"
    /\ redrawDisplay

(***************************************************************************)
(* C8 as stated.  The display step paints a status field if and only if    *)
(* the text it shows differs from the text of the current value (all three *)
(* differ before the first rendering).                                     *)
(***************************************************************************)
C8_PaintsOnlyChanged == painted = stale

(***************************************************************************)
(* C8 amended.  The display step paints all three status fields when the   *)
(* dirty flag is set and none when it is clear, whichever of them changed; *)
(* after painting every field shows the current value.                     *)
(***************************************************************************)
C8_PaintsAllWhenDirty ==
    [][ RenderStep =>
          IF redrawDisplay
          THEN /\ painted' = {"mode", "colour", "button"}
               /\ shown' = CurrentTexts
          ELSE /\ painted' = {}
               /\ shown' = shown
      ]_vars

\* the display was repainted in full although only the button field was out of date
C8_Witness ==
    /\ lastOp = "render"
    /\ painted = Fields
    /\ stale = {"button"}

(***************************************************************************)
(* C9 as stated.  In an idle loop iteration (no gesture, button level      *)
(* unchanged, no timer advance) the display step paints nothing.           *)
(***************************************************************************)
C9_IdleNeverPaints ==
    (idle /\ pc = "tick" /\ lastOp \in {"render", "noRender"}) => painted = {}

(***************************************************************************)
(* C9 amended.  In an idle loop iteration other than the first after       *)
(* setup() (something has been rendered before) the display step is        *)
(* skipped and paints nothing.                                             *)
(***************************************************************************)
C9_IdleAfterFirstNeverPaints ==
    [][ (RenderStep /\ idle /\ shown # BlankTexts) =>
          /\ painted' = {}
          /\ lastOp' = "noRender"
          /\ shown' = shown
      ]_vars

\* an idle iteration has ended without painting, later than the first iteration
C9_Witness ==
    /\ idle
    /\ pc = "tick"
    /\ lastOp = "noRender"
    /\ painted = {}
    /\ advances = 1
    /\ shown = CurrentTexts

(***************************************************************************)
(* C10.  At the end of every loop iteration the dirty flag is clear and    *)
(* the texts on the screen are those of currentState, currentColour and    *)
(* buttonPressed.                                                          *)
(***************************************************************************)
C10_RenderedAtIterationEnd ==
    (pc = "tick" /\ lastOp \in {"render", "noRender"}) =>
        /\ ~redrawDisplay
        /\ shown.mode = ModeText(currentState)
        /\ shown.colour = ColourText(currentColour)
        /\ shown.button = ButtonText(buttonPressed)

\* an iteration with a mode toggle, a button-level change and nothing else has
\* ended with all of it on the screen
C10_Witness ==
    /\ pc = "tick"
    /\ lastOp = "render"
    /\ stale = {"mode", "button"}
    /\ shown = CurrentTexts
    /\ ~redrawDisplay

(***************************************************************************)
(* C11.  In every reachable state the mode is AUTO or MANUAL and the       *)
(* colour index is in 0..6; the default branches of loop's switch and of   *)
(* setLEDColour are never taken; and at the start of every loop iteration  *)
(* both a long press (flipping the mode) and a click can be handled, so    *)
(* that each of the 14 (mode, colour) pairs can be reached.                *)
(***************************************************************************)
C11_StateSpace ==
    /\ currentState \in {"AUTO", "MANUAL"}
    /\ currentColour \in 0 .. 6
    /\ lastOp # "default"
    /\ pc = "tick" => ENABLED KeyTickLongPressStart /\ ENABLED KeyTickClick

\* the (mode, colour) pair  <<s, c>>  is the current one, at the start of an iteration
C11_Reaches(s, c) == pc = "tick" /\ currentState = s /\ currentColour = c

\* the pair farthest from the initial one: MANUAL with WHITE, six advances away
C11_Witness ==
    /\ C11_Reaches(Colour_CHANGE_MANUAL, WHITE)
    /\ advances = 6
    /\ led = <<TRUE, TRUE, TRUE>>

(***************************************************************************)
(* C12.  The stored timestamp is the true time of the last timer advance   *)
(* reduced mod 2^WordBits, and whenever the true time elapsed since then   *)
(* is below 2^WordBits the unsigned difference millis() -                  *)
(* lastColourChangeTime equals it, also across a wrap of the counter; so   *)
(* in AUTO the timer fires exactly when the true elapsed time has reached  *)
(* 1000 ms.                                                                *)
(***************************************************************************)
C12_WrapSafe ==
    [][ /\ lastColourChangeTime' = lastChangeTrue' % (2 ^ WordBits)
        /\ now' - lastChangeTrue' < 2 ^ WordBits =>
              USub(now' % (2 ^ WordBits), lastColourChangeTime') = now' - lastChangeTrue'
        /\ (ModeStep /\ currentState = Colour_CHANGE_AUTO
                     /\ now - lastChangeTrue < 2 ^ WordBits) =>
              (lastOp' = "autoAdvance" <=> now - lastChangeTrue >= 1000)
      ]_vars

\* the third timer advance in a row, stamped after the counter wrapped: the
\* second one was stamped before the wrap
C12_Witness ==
    /\ lastOp = "autoAdvance"
    /\ ~everToggled
    /\ advances = 3
    /\ lastChangeTrue >= Modulus
    /\ lastChangeTrue <= 3 * ColourInterval
    /\ lastColourChangeTime = lastChangeTrue - Modulus

(***************************************************************************)
(* C13 as stated.  After setup() the backlight enable line PIN_LCD_BL has  *)
(* been driven HIGH (and nothing changes it later).                        *)
(***************************************************************************)
C13_BacklightHigh == pc # "setup" => backlight = "HIGH"

C15_FrameOfModeAndColour ==
    [][ /\ currentState' # currentState => LongPressStep
        /\ currentColour' # currentColour =>
              /\ currentColour' = (currentColour + 1) % 7
              /\ \/ ModeStep /\ currentState = "AUTO" /\ lastOp' = "autoAdvance"
                 \/ ClickStep /\ currentState = "MANUAL"
      ]_vars

\* a short click handled in AUTO, after earlier toggles and one advance, with
\* the button held: mode and colour are as they were
C15_Witness ==
    /\ lastOp = "click"
    /\ pc = "sample"
    /\ everToggled
    /\ buttonPressed
    /\ currentState = Colour_CHANGE_AUTO
    /\ currentColour = GREEN
    /\ advances = 1

(***************************************************************************)
(* C16 as stated.  Every colour advance, a short click in MANUAL included, *)
(* sets lastColourChangeTime to the time of that advance.                  *)
(***************************************************************************)
C16_EveryAdvanceStamps ==
    [][ AdvanceStep => lastColourChangeTime' = millis ]_vars

(***************************************************************************)
(* C16 amended.  Only a timer-driven advance sets lastColourChangeTime (to *)
(* the clock value read in that step); an advance by a short click in      *)
(* MANUAL leaves the timestamp as it was.                                  *)
(***************************************************************************)
C16_OnlyTimerAdvanceStamps ==
    [][ /\ (ModeStep /\ lastOp' = "autoAdvance") => lastColourChangeTime' = millis
        /\ ClickStep => lastColourChangeTime' = lastColourChangeTime
        /\ lastColourChangeTime' # lastColourChangeTime =>
              ModeStep /\ currentState = Colour_CHANGE_AUTO /\ lastOp' = "autoAdvance"
      ]_vars

\* a click has advanced the colour in MANUAL at 1999 ms; the timestamp is still 0
C16_Witness ==
    /\ lastOp = "click"
    /\ pc = "sample"
    /\ currentState = Colour_CHANGE_MANUAL
    /\ currentColour = GREEN
    /\ advances = 1
    /\ iterAdvances = 1
    /\ now = 2 * ColourInterval - 1
    /\ lastColourChangeTime = 0

(***************************************************************************)
(* C17.  A mode toggle leaves the auto-advance timer alone: the long-press *)
(* callback does not modify lastColourChangeTime, no step taken while the  *)
(* mode is MANUAL modifies it, and back in AUTO the timer measures from    *)
(* the timestamp of its own last timer-driven advance.                     *)
(***************************************************************************)
C17_ToggleKeepsTimer ==
    [][ /\ LongPressStep => lastColourChangeTime' = lastColourChangeTime
        /\ currentState = Colour_CHANGE_MANUAL =>
              lastColourChangeTime' = lastColourChangeTime
        /\ (ModeStep /\ currentState = Colour_CHANGE_AUTO) =>
              (lastOp' = "autoAdvance" <=>
                  USub(millis, lastChangeTrue % Modulus) >= ColourInterval)
      ]_vars

\* back in AUTO by a long press at 2999 ms, the timestamp is still that of the
\* one timer-driven advance at 1000 ms
C17_Witness ==
    /\ lastOp = "longPress"
    /\ pc = "sample"
    /\ currentState = Colour_CHANGE_AUTO
    /\ advances = 1
    /\ lastColourChangeTime = ColourInterval
    /\ lastChangeTrue = ColourInterval
    /\ now = 3 * ColourInterval - 1

(***************************************************************************)
(* The program steps of one loop iteration, by the operation just run, and *)
(* the operation that ran before it.                                       *)
(***************************************************************************)
GestureOps == {"tickNone", "click", "longPress"}
TimerOps   == {"autoAdvance", "autoWait", "manual", "default"}
RenderOps  == {"render", "noRender"}

ProgramStep(ops) == pc' # pc /\ lastOp' \in ops

(***************************************************************************)
(* C18 as stated.  Within one loop iteration the button level is sampled   *)
(* before a gesture callback is applied and before the timer tick, and     *)
(* rendering follows all three: the order is sample, gesture, timer,       *)
(* render.                                                                 *)
(***************************************************************************)
C18_SampleBeforeGesture ==
    [][ /\ ProgramStep({"sample"}) => lastOp \in RenderOps \cup {"setup"}
        /\ ProgramStep({"click", "longPress"}) => lastOp = "sample"
        /\ ProgramStep(TimerOps) => lastOp \in GestureOps \cup {"sample"}
        /\ ProgramStep(RenderOps) => lastOp \in TimerOps
      ]_vars

(***************************************************************************)
(* C18 amended.  Within one loop iteration the gesture callbacks run       *)
(* first (inside keyButton.tick()), then the button level is sampled and   *)
(* buttonPressed updated, then the timer is ticked, and rendering follows  *)
(* all three; the mode changes only in the gesture step, buttonPressed     *)
(* only in the sampling step, the timestamp only in the timer step and the *)
(* screen only in the rendering step.                                      *)
(***************************************************************************)
C18_GestureBeforeSample ==
    [][ /\ ProgramStep(GestureOps) => lastOp \in RenderOps \cup {"setup"}
        /\ ProgramStep({"sample"}) => lastOp \in GestureOps
        /\ ProgramStep(TimerOps) => lastOp = "sample"
        /\ ProgramStep(RenderOps) => lastOp \in TimerOps
        /\ (pc # "setup" /\ pc' # pc) =>
              lastOp' \in GestureOps \cup {"sample"} \cup TimerOps \cup RenderOps
        /\ (pc # "setup" /\ currentState' # currentState) => ProgramStep(GestureOps)
        /\ buttonPressed' # buttonPressed => ProgramStep({"sample"})
        /\ lastColourChangeTime' # lastColourChangeTime => ProgramStep(TimerOps)
        /\ (pc # "setup" /\ shown' # shown) => ProgramStep(RenderOps)
      ]_vars

\* the button has just been sampled as pressed, in an iteration whose long-press
\* callback had already switched the mode to MANUAL; the screen shows neither yet
C18_Witness ==
    /\ pc = "mode"
    /\ lastOp = "sample"
    /\ currentState = Colour_CHANGE_MANUAL
    /\ buttonPressed
    /\ redrawDisplay
    /\ shown.mode = ModeText(Colour_CHANGE_AUTO)
    /\ shown.button = ButtonText(FALSE)

(***************************************************************************)
(* C19.  The colour advances at most once per loop iteration: an advance   *)
(* made by a gesture callback leaves the mode MANUAL, in which the timer   *)
(* is not ticked, so no combination of a callback and the timer tick in    *)
(* one iteration yields two advances.                                      *)
(***************************************************************************)
C19_AtMostOneAdvance ==
    /\ iterAdvances <= 1
    /\ (pc \in {"sample", "mode"} /\ iterAdvances = 1) =>
          currentState = Colour_CHANGE_MANUAL /\ lastOp \in {"click", "sample"}
    /\ (pc = "sample" /\ lastOp # "click") => iterAdvances = 0

\* a click in MANUAL has advanced the colour in an iteration in which the timer's
\* interval had run out; the mode switch has passed without a second advance
C19_Witness ==
    /\ pc = "render"
    /\ lastOp = "manual"
    /\ iterAdvances = 1
    /\ advances = 1
    /\ currentColour = GREEN
    /\ Elapsed >= ColourInterval

(***************************************************************************)
(* C20.  With the loop and the clock both kept going: if from some point   *)
(* on the mode is AUTO for ever, then the timer advances the colour again  *)
(* and again and each of the seven colours is on the LED again and again;  *)
(* and in any case the loop is never stuck: after setup() a loop step can  *)
(* always be taken, and the loop comes back to its first and its last      *)
(* statement again and again.                                              *)
(***************************************************************************)
C20_AutoCyclesForever ==
    /\ <>[](currentState = Colour_CHANGE_AUTO) =>
          /\ []<>(pc = "render" /\ lastOp = "autoAdvance")
          /\ \A c \in LEDColour : []<>(currentColour = c /\ led = Pattern(c))
    /\ [](pc # "setup" => ENABLED Loop)
    /\ []<>(pc = "tick")
    /\ []<>(pc = "render")

\* in AUTO throughout, the timer alone has taken the colour once round the
\* cycle, the counter having wrapped on the way
C20_Witness ==
    /\ pc = "render"
    /\ lastOp = "autoAdvance"
    /\ ~everToggled
    /\ advances = NumColours
    /\ currentColour = RED
    /\ led = Pattern(RED)
    /\ lastColourChangeTime = millis

(***************************************************************************)
(* The timer test of an iteration whose long press has switched the mode   *)
(* from MANUAL to AUTO, and the true time since the last timer-driven      *)
(* advance (since start when there was none).                              *)
(***************************************************************************)
EnterAutoTimerStep ==
    ModeStep /\ currentState = Colour_CHANGE_AUTO /\ pressTiming # "none"

TrueElapsed == now - lastChangeTrue

(***************************************************************************)
(* C21 as stated.  When a long press switches MANUAL -> AUTO and 1000 ms   *)
(* or more have passed since the last timer-driven advance, the colour     *)
(* advances in that same loop iteration; when less has passed, the timer   *)
(* advances exactly when the rest of the interval has passed.  Stated for  *)
(* the iterations in which the clock stands still between the long press   *)
(* and the timer test, so that "the time of the long press" is the time of *)
(* the test, and for the time after the first timer-driven advance.        *)
(***************************************************************************)
C21_AdvanceOnEnteringAuto ==
    [][ (EnterAutoTimerStep /\ lastChangeTrue > 0) =>
          /\ pressTiming = "due" => lastOp' = "autoAdvance"
          /\ pressTiming = "early" => lastOp' = "autoWait"
      ]_vars

(***************************************************************************)
(* C21 amended.  The same, for as long as less than one full period of the *)
(* millisecond counter has passed since the last timer-driven advance; in  *)
(* general the timer test of that iteration goes by the counter's unsigned *)
(* difference, which is the true elapsed time modulo that period.          *)
(***************************************************************************)
C21_AdvanceOnEnteringAutoWithinPeriod ==
    [][ EnterAutoTimerStep =>
          /\ lastOp' = "autoAdvance" <=> TrueElapsed % Modulus >= ColourInterval
          /\ TrueElapsed < Modulus =>
                /\ pressTiming = "due" =>
                      /\ lastOp' = "autoAdvance"
                      /\ currentColour' = (currentColour + 1) % 7
                      /\ iterAdvances' = 1
                /\ pressTiming = "early" => lastOp' = "autoWait"
                /\ lastOp' = "autoAdvance" <=> TrueElapsed >= ColourInterval
                /\ TrueElapsed < ColourInterval =>
                      /\ currentColour' = currentColour
                      /\ lastColourChangeTime' = lastColourChangeTime
      ]_vars

\* 1000 ms after the colour's first advance a long press has switched from
\* MANUAL to AUTO, and the timer has advanced the colour in the same iteration
C21_Witness ==
    /\ pc = "render"
    /\ lastOp = "autoAdvance"
    /\ pressTiming = "due"
    /\ currentState = Colour_CHANGE_AUTO
    /\ shown.mode = ModeText(Colour_CHANGE_MANUAL)
    /\ advances = 2
    /\ iterAdvances = 1
    /\ currentColour = BLUE
    /\ now = 2 * ColourInterval
    /\ lastColourChangeTime = now

=============================================================================
